---- MODULE Spec2Model ----
(***************************************************************************)
(* Workout tracker: the Record Store (database.py), the PR Evaluator       *)
(* (check_if_pr, check_running_pr) and the Log Workout flows of app.py.    *)
(*                                                                         *)
(* Units.  Dates are day numbers.  A strength weight is a whole number of  *)
(* pounds.  The miles typed into the run form are held in hundredths of a  *)
(* mile (milesC = 27 is 0.27 mi); sets.reps of a run is tenths of a mile,  *)
(* as the code stores it.  An estimated 1RM is held in thirtieths of a     *)
(* pound, so that weight * (1 + reps / 30.0) is the integer                *)
(* weight * (30 + reps); personal_records.value of a 'weight' or '1rm' row *)
(* is in thirtieths too.  Paces are compared by cross-multiplication.      *)
(***************************************************************************)
EXTENDS Integers, Sequences, FiniteSets

VARIABLES
    today,          \* datetime.now().date()
    exercises,      \* table exercises
    nextExerciseId, \* exercises.id SERIAL
    workouts,       \* table workouts
    sets,           \* table sets
    prs,            \* table personal_records, in insertion order
    nextWorkoutId,  \* workouts.id SERIAL
    nextSetId,      \* sets.id SERIAL
    workout_id,     \* st.session_state.workout_id of each session (0: not set)
    pc,             \* each session's position in the script run
    flow,           \* each session's locals of the handler in flight
    assigned        \* history: <<workout_id, exercise_id, set_number>> of every
                    \* number add_set has handed out

vars == <<today, exercises, nextExerciseId, workouts, sets, prs, nextWorkoutId,
          nextSetId, workout_id, pc, flow, assigned>>

store == <<exercises, nextExerciseId, workouts, sets, prs, nextWorkoutId,
           nextSetId>>

----------------------------------------------------------------------------
(* Bounds of the model *)

MaxDay == 2

MaxSetId == 2

MaxWorkoutId == 2

MaxExerciseId == 3

(* Two browser sessions of the one Streamlit server *)
Sessions == {"s1", "s2"}

(* Values the form widgets can deliver *)
RepsInputs == {1, 3}

WeightInputs == {15, 16}

MilesInputs == {10, 27}

TimeInputs == {20, 100}

HrInputs == {140}

(* Names typed into the Manage Exercises form, as sequences of words and
   blanks *)
NameInputs == {<<>>, <<" ">>, <<"Squat">>, <<" ", "Squat">>, <<"Bench", " ">>}

NotesInputs == {"easy day"}

(* Arguments of add_set, check_running_pr and get_running_stats called on
   the store directly: tenths of a mile stored, hundredths of a mile run *)
CallReps == {0, 1}

CallMiles == {0, 10}

(* Arguments of add_exercise called on the store directly *)
CallNames == {<<"Plank">>}

CallCategories == {"Other", "Tempo Run"}

(* Values a caller can pass that the handlers must refuse *)
InvalidReps == {0, 101}

InvalidWeights == {-1, 1001}

InvalidMiles == {0}

InvalidTimes == {0}

RUNNING_CATEGORIES == {"Easy Run", "Tempo Run", "Long Easy Run"}

NO_PRIOR_PACE == 999

NoWorkout == 0

(* exercises.category of a row inserted with category = None: the column is
   TEXT without NOT NULL *)
NULL == "NULL"

NoCheck ==
    [is_weight_pr |-> FALSE, is_1rm_pr |-> FALSE,
     is_pace_pr |-> FALSE, is_distance_pr |-> FALSE]

NoFlow ==
    [today |-> 0, exercise_id |-> 0, reps |-> 0, weight |-> 0, miles |-> 0,
     time_minutes |-> 0, heart_rate |-> 0, set_id |-> 0, pr_check |-> NoCheck,
     cmd |-> "", target |-> 0, name |-> <<>>, error |-> "", removed |-> 0]

----------------------------------------------------------------------------
(* Helpers *)

MaxOf(S) == CHOOSE x \in S : \A y \in S : y <= x

IsRunning(E, eid) ==
    \E e \in E : e.id = eid /\ e.category \in RUNNING_CATEGORIES

----------------------------------------------------------------------------
(* The calendar.  Day 1 is Monday 2024-01-01; day 365 is Monday 2024-12-30
   and day 367 is Wednesday 2025-01-01. *)

IsLeap(y) == (y % 4 = 0 /\ y % 100 # 0) \/ y % 400 = 0

DaysInYear(y) == IF IsLeap(y) THEN 366 ELSE 365

RECURSIVE CivilFrom(_, _)
CivilFrom(y, n) ==
    IF n <= DaysInYear(y) THEN [year |-> y, doy |-> n]
    ELSE CivilFrom(y + 1, n - DaysInYear(y))

(* The calendar year and the day of the year of a day number *)
Civil(d) == CivilFrom(2024, d)

(* date.isoweekday(): Monday is 1 *)
IsoWeekday(d) == ((d - 1) % 7) + 1

(* The weekday of 31 December of year y, Sunday as 0 *)
Dec31Weekday(y) == (y + (y \div 4) - (y \div 100) + (y \div 400)) % 7

(* The number of ISO weeks of year y *)
WeeksInYear(y) ==
    IF Dec31Weekday(y) = 4 \/ Dec31Weekday(y - 1) = 3 THEN 53 ELSE 52

(* date.isocalendar()[1] and EXTRACT(WEEK FROM date): the ISO 8601 week *)
IsoWeek(d) ==
    LET c == Civil(d)
        w == (c.doy - IsoWeekday(d) + 10) \div 7
    IN  IF w < 1 THEN WeeksInYear(c.year - 1)
        ELSE IF w > WeeksInYear(c.year) THEN 1
        ELSE w

(* date.year and EXTRACT(YEAR FROM date): the calendar year *)
CalendarYear(d) == Civil(d).year

(* The days on which the application is opened around the turn of the year:
   Sunday 2024-12-29, Monday 2024-12-30 and Wednesday 2025-01-01 *)
ViewDays == {364, 365, 367}

----------------------------------------------------------------------------
(* database.py: queries *)

(* PriorSets with the candidate date itself counted: <= for < *)
PriorSetsUpToDate(exercise_id, workout_date) ==
    {s \in sets : /\ s.exercise_id = exercise_id
                  /\ \E w \in workouts : /\ w.id = s.workout_id
                                         /\ w.workout_date <= workout_date}

(* FROM sets s JOIN workouts w ON s.workout_id = w.id
   WHERE s.exercise_id = %s AND w.workout_date < %s *)
PriorSets(exercise_id, workout_date) ==
    {s \in sets : /\ s.exercise_id = exercise_id
                  /\ \E w \in workouts : /\ w.id = s.workout_id
                                         /\ w.workout_date < workout_date}

(* app.py calculate_estimated_1rm, in thirtieths *)
calculate_estimated_1rm(weight, reps) ==
    IF reps = 1 THEN weight * 30 ELSE weight * (30 + reps)

(* weight * (1 + reps / 30.0) if reps > 1 else weight, in thirtieths *)
Current1rm(weight, reps) ==
    IF reps > 1 THEN weight * (30 + reps) ELSE weight * 30

(* MAX(weight * (1 + reps / 30.0)) of the SQL query: no case for reps = 1 *)
Sql1rm(s) == s.weight * (30 + s.reps)

(* PrevMax over every set of the exercise, whatever its date *)
PrevMaxAllTime(exercise_id, workout_date) ==
    LET prior == {s \in sets : s.exercise_id = exercise_id}
    IN  IF prior = {} THEN 0 ELSE MaxOf({s.weight : s \in prior})

(* result['prev_max'] if result and result['prev_max'] else 0 *)
PrevMax(exercise_id, workout_date) ==
    LET prior == PriorSets(exercise_id, workout_date)
    IN  IF prior = {} THEN 0 ELSE MaxOf({s.weight : s \in prior})

Prev1rm(exercise_id, workout_date) ==
    LET prior == PriorSets(exercise_id, workout_date)
    IN  IF prior = {} THEN 0 ELSE MaxOf({Sql1rm(s) : s \in prior})

(* is_weight_pr = weight > prev_max *)
IsWeightPr(exercise_id, weight, workout_date) ==
    weight > PrevMax(exercise_id, workout_date)

(* is_1rm_pr = current_1rm > prev_1rm *)
Is1rmPr(exercise_id, weight, reps, workout_date) ==
    Current1rm(weight, reps) > Prev1rm(exercise_id, workout_date)

check_if_pr(exercise_id, weight, reps, workout_date) ==
    [NoCheck EXCEPT
        !.is_weight_pr = IsWeightPr(exercise_id, weight, workout_date),
        !.is_1rm_pr = Is1rmPr(exercise_id, weight, reps, workout_date)]

(* IsPacePr with no PR when there is no prior pace *)
IsPacePrNeverFirst(exercise_id, milesC, time_minutes, workout_date) ==
    LET prior == {s \in sets : /\ s.exercise_id = exercise_id
                               /\ \E w \in workouts :
                                      /\ w.id = s.workout_id
                                      /\ w.workout_date < workout_date}
    IN  /\ prior # {}
        /\ \A s \in prior : time_minutes * 10 * s.reps < s.weight * milesC

(* current_pace < prev_best_pace, with current_pace = time_minutes / miles and
   prev_best_pace = MIN(s.weight / (s.reps / 10.0)), or 999 when the query
   gives NULL or 0.  miles is in hundredths: time * 100 / milesC against
   weight * 10 / reps. *)
IsPacePr(exercise_id, milesC, time_minutes, workout_date) ==
    LET prior == PriorSets(exercise_id, workout_date)
    IN  IF prior = {} \/ \E s \in prior : s.weight = 0
        THEN time_minutes * 100 < NO_PRIOR_PACE * milesC
        ELSE \A s \in prior : time_minutes * 10 * s.reps < s.weight * milesC

(* miles > prev_max_distance, with prev_max_distance = MAX(s.reps / 10.0) or 0 *)
IsDistancePr(exercise_id, milesC, workout_date) ==
    LET prior == PriorSets(exercise_id, workout_date)
    IN  milesC > 10 * (IF prior = {} THEN 0 ELSE MaxOf({s.reps : s \in prior}))

check_running_pr(exercise_id, milesC, time_minutes, workout_date) ==
    [NoCheck EXCEPT
        !.is_pace_pr = IsPacePr(exercise_id, milesC, time_minutes, workout_date),
        !.is_distance_pr = IsDistancePr(exercise_id, milesC, workout_date)]

(* How a call of check_running_pr ends: current_pace = time_minutes / miles
   raises ZeroDivisionError for miles = 0, and s.weight / (s.reps / 10.0) of
   the first query makes PostgreSQL raise "division by zero" when a row of
   the WHERE clause has reps = 0; "" when the call returns *)
check_running_pr_error(exercise_id, milesC, workout_date) ==
    IF milesC = 0 THEN "ZeroDivisionError"
    ELSE IF \E s \in PriorSets(exercise_id, workout_date) : s.reps = 0
    THEN "DivisionByZero"
    ELSE ""

(* How a call of get_running_stats ends: its query divides by s.reps / 10.0
   in every row of the exercise *)
get_running_stats_error(exercise_id) ==
    IF \E s \in sets : /\ s.exercise_id = exercise_id
                        /\ \E w \in workouts : w.id = s.workout_id
                        /\ s.reps = 0
    THEN "DivisionByZero"
    ELSE ""

(* NextSetNumber without the workout_id condition of the WHERE clause *)
NextSetNumberAnyWorkout(wid, exercise_id) ==
    LET nums == {s.set_number : s \in {x \in sets : x.exercise_id = exercise_id}}
    IN  IF nums = {} THEN 1 ELSE MaxOf(nums) + 1

(* SELECT COALESCE(MAX(set_number), 0) + 1 WHERE workout_id = .. AND exercise_id = .. *)
NextSetNumber(wid, exercise_id) ==
    LET nums == {s.set_number : s \in {x \in sets : /\ x.workout_id = wid
                                                    /\ x.exercise_id = exercise_id}}
    IN  IF nums = {} THEN 1 ELSE MaxOf(nums) + 1

(* validate_set_input with the test reps > 100 left out *)
validate_set_input_no_cap(reps, weight) ==
    ~(reps <= 0) /\ ~(weight < 0) /\ ~(weight > 1000)

(* utils.validate_set_input *)
validate_set_input(reps, weight) ==
    ~(reps <= 0) /\ ~(weight < 0) /\ ~(reps > 100) /\ ~(weight > 1000)

(* The reason validate_set_input returns with its verdict *)
validate_set_input_reason(reps, weight) ==
    IF reps <= 0 THEN "Reps must be positive"
    ELSE IF weight < 0 THEN "Weight cannot be negative"
    ELSE IF reps > 100 THEN "Reps seems too high (>100)"
    ELSE IF weight > 1000 THEN "Weight seems too high (>1000)"
    ELSE ""

RECURSIVE lstrip(_)
lstrip(name) ==
    IF name # <<>> /\ Head(name) = " " THEN lstrip(Tail(name)) ELSE name

RECURSIVE rstrip(_)
rstrip(name) ==
    IF name # <<>> /\ name[Len(name)] = " "
    THEN rstrip(SubSeq(name, 1, Len(name) - 1))
    ELSE name

(* strip with nothing removed *)
strip_nothing(name) == name

(* str.strip() *)
strip(name) == rstrip(lstrip(name))

(* int(miles * 10) *)
RepsOfMiles(milesC) == milesC \div 10

----------------------------------------------------------------------------
(* database.py and app.py: the dashboard and mileage views *)

(* w.workout_date of a set, through JOIN workouts w ON s.workout_id = w.id *)
WorkoutDate(x) == (CHOOSE w \in workouts : w.id = x.workout_id).workout_date

(* SQL's v IN (...): true for a value of the list, and not true for NULL *)
SqlIn(v, S) == v # NULL /\ v \in S

(* SQL's v NOT IN (...): true for a value outside the list, and not true for
   NULL, whose comparison with every member is unknown *)
SqlNotIn(v, S) == v # NULL /\ v \notin S

(* FROM sets s JOIN workouts w JOIN exercises e
   WHERE e.category NOT IN ('Easy Run', 'Tempo Run', 'Long Easy Run') *)
StrengthSets ==
    {x \in sets : /\ \E w \in workouts : w.id = x.workout_id
                  /\ \E e \in exercises :
                         /\ e.id = x.exercise_id
                         /\ SqlNotIn(e.category, RUNNING_CATEGORIES)}

(* ... WHERE e.category IN ('Easy Run', 'Tempo Run', 'Long Easy Run') *)
RunSets ==
    {x \in sets : /\ \E w \in workouts : w.id = x.workout_id
                  /\ \E e \in exercises :
                         /\ e.id = x.exercise_id
                         /\ SqlIn(e.category, RUNNING_CATEGORIES)}

(* GROUP BY EXTRACT(YEAR FROM w.workout_date), EXTRACT(WEEK FROM w.workout_date) *)
WeekBucket(d) == [week |-> IsoWeek(d), year |-> CalendarYear(d)]

Volume(x) == x.reps * x.weight

RECURSIVE SumVolume(_)
(* SUM(s.reps * s.weight) over a set of rows *)
SumVolume(S) ==
    IF S = {} THEN 0
    ELSE LET x == CHOOSE y \in S : TRUE IN Volume(x) + SumVolume(S \ {x})

BucketKey(b) == b.year * 100 + b.week

RECURSIVE OrderByYearWeek(_)
(* sort_values(['year', 'week']): the rows as a sequence, oldest label first *)
OrderByYearWeek(S) ==
    IF S = {} THEN <<>>
    ELSE LET x == CHOOSE y \in S : \A z \in S : BucketKey(y) <= BucketKey(z)
         IN  <<x>> \o OrderByYearWeek(S \ {x})

(* get_weekly_volume_trend: the buckets ORDER BY year DESC, week DESC LIMIT
   weeks, then df.sort_values(['year', 'week']) *)
get_weekly_volume_trend(weeks) ==
    LET buckets == {WeekBucket(WorkoutDate(x)) : x \in StrengthSets}
        rows == {[week |-> b.week, year |-> b.year,
                  volume |-> SumVolume(
                      {x \in StrengthSets : WeekBucket(WorkoutDate(x)) = b})]
                 : b \in buckets}
        all == OrderByYearWeek(rows)
    IN  IF Len(all) <= weeks THEN all
        ELSE SubSeq(all, Len(all) - weeks + 1, Len(all))

(* Weekly Mileage page: the (week, year) looked up as last week *)
LastWeekBucket ==
    LET current_week == IsoWeek(today)
        current_year == CalendarYear(today)
    IN  [week |-> IF current_week > 1 THEN current_week - 1 ELSE 52,
         year |-> IF current_week > 1 THEN current_year ELSE current_year - 1]

(* NonEmptyDates with the EXISTS condition dropped *)
AllWorkoutDates == {w.workout_date : w \in workouts}

(* SELECT DISTINCT w.workout_date FROM workouts w WHERE EXISTS
   (SELECT 1 FROM sets s WHERE s.workout_id = w.id) *)
NonEmptyDates ==
    {w.workout_date : w \in {v \in workouts : \E x \in sets : x.workout_id = v.id}}

RECURSIVE StreakWalk(_, _, _)
(* for date in dates[1:], over the dates in descending order *)
StreakWalk(rest, expected_date, streak) ==
    IF rest = {} THEN streak
    ELSE LET date == MaxOf(rest)
         IN  IF date = expected_date
             THEN StreakWalk(rest \ {date}, date - 1, streak + 1)
             ELSE streak

get_workout_streak ==
    LET dates == NonEmptyDates
    IN  IF dates = {} THEN 0
        ELSE LET most_recent == MaxOf(dates)
             IN  IF most_recent # today /\ most_recent # today - 1 THEN 0
                 ELSE StreakWalk(dates \ {most_recent}, most_recent - 1, 1)

(* get_workouts_by_date_range with the EXISTS condition dropped *)
WorkoutsInRange(start_date, end_date) ==
    {w \in workouts : start_date <= w.workout_date /\ w.workout_date <= end_date}

(* get_workouts_by_date_range: WHERE w.workout_date BETWEEN %s AND %s AND
   EXISTS (SELECT 1 FROM sets s WHERE s.workout_id = w.id) *)
get_workouts_by_date_range(start_date, end_date) ==
    {w \in workouts : /\ start_date <= w.workout_date
                      /\ w.workout_date <= end_date
                      /\ \E x \in sets : x.workout_id = w.id}

(* LIMIT 10 of get_last_workout_for_exercise *)
LastWorkoutLimit == 10

RECURSIVE OrderByDateDescSetNumber(_)
(* ORDER BY w.workout_date DESC, s.set_number: the sets as a sequence; rows
   equal in both come in any order *)
OrderByDateDescSetNumber(S) ==
    IF S = {} THEN <<>>
    ELSE LET x == CHOOSE y \in S : \A z \in S :
                      \/ WorkoutDate(y) > WorkoutDate(z)
                      \/ /\ WorkoutDate(y) = WorkoutDate(z)
                         /\ y.set_number <= z.set_number
         IN  <<x>> \o OrderByDateDescSetNumber(S \ {x})

(* return None *)
NoLastWorkout == [date |-> 0, sets |-> <<>>]

(* get_last_workout_for_exercise(exercise_id, before_date): the first ten rows
   of the exercise dated before before_date, the date of the first one as
   'date' and all of them as 'sets' *)
get_last_workout_for_exercise(exercise_id, before_date) ==
    LET all == OrderByDateDescSetNumber(PriorSets(exercise_id, before_date))
        kept == IF Len(all) <= LastWorkoutLimit THEN all
                ELSE SubSeq(all, 1, LastWorkoutLimit)
        rows == [i \in DOMAIN kept |->
                    [workout_date |-> WorkoutDate(kept[i]),
                     set_number |-> kept[i].set_number,
                     reps |-> kept[i].reps, weight |-> kept[i].weight]]
    IN  IF rows = <<>> THEN NoLastWorkout
        ELSE [date |-> rows[1].workout_date, sets |-> rows]

RECURSIVE SumReps(_)
(* SUM(s.reps / 10.0) over a set of rows, in tenths of a mile *)
SumReps(S) ==
    IF S = {} THEN 0
    ELSE LET x == CHOOSE y \in S : TRUE IN x.reps + SumReps(S \ {x})

(* WHERE w.workout_date BETWEEN %s AND %s *)
Between(d, start_date, end_date) == start_date <= d /\ d <= end_date

(* The rows of the first query of get_week_summary *)
VolumeRows(start_date, end_date) ==
    {x \in StrengthSets : Between(WorkoutDate(x), start_date, end_date)}

(* The rows of its second query *)
MilesRows(start_date, end_date) ==
    {x \in RunSets : Between(WorkoutDate(x), start_date, end_date)}

(* get_week_summary; total_miles in tenths of a mile *)
get_week_summary(start_date, end_date) ==
    [total_volume |-> SumVolume(VolumeRows(start_date, end_date)),
     total_miles |-> SumReps(MilesRows(start_date, end_date)),
     num_workouts |-> Cardinality(
         {w \in workouts : /\ Between(w.workout_date, start_date, end_date)
                           /\ \E x \in sets : x.workout_id = w.id})]

----------------------------------------------------------------------------
(* database.py: commands, as the new value of the table *)

(* add_set: the row inserted; the foreign key on workout_id makes the INSERT
   fail when the workout row is gone *)
AddSetRow(wid, exercise_id, reps, weight) ==
    [id |-> nextSetId, workout_id |-> wid, exercise_id |-> exercise_id,
     set_number |-> NextSetNumber(wid, exercise_id), reps |-> reps,
     weight |-> weight]

CanAddSet(wid, exercise_id) ==
    /\ \E w \in workouts : w.id = wid
    /\ \E e \in exercises : e.id = exercise_id

(* update_last_set_hr: the newest set of the pair gets set_number = heart_rate *)
UpdateLastSetHr(wid, exercise_id, heart_rate) ==
    LET mine == {s \in sets : s.workout_id = wid /\ s.exercise_id = exercise_id}
        last == MaxOf({s.id : s \in mine})
    IN  IF mine = {} THEN sets
        ELSE {IF s.id = last THEN [s EXCEPT !.set_number = heart_rate] ELSE s
              : s \in sets}

(* LogPr with the INSERT lost for every pr_type but 'weight' *)
LogPrWeightOnly(exercise_id, pr_type, value, achieved_date) ==
    IF pr_type = "weight"
    THEN Append(prs, [exercise_id |-> exercise_id, pr_type |-> pr_type,
                      value |-> value, achieved_date |-> achieved_date])
    ELSE prs

(* LogPr as an upsert: the row of the exercise and type is overwritten *)
LogPrUpsert(exercise_id, pr_type, value, achieved_date) ==
    LET row == [exercise_id |-> exercise_id, pr_type |-> pr_type,
                value |-> value, achieved_date |-> achieved_date]
    IN  IF \E i \in DOMAIN prs : /\ prs[i].exercise_id = exercise_id
                                  /\ prs[i].pr_type = pr_type
        THEN [i \in DOMAIN prs |->
                 IF prs[i].exercise_id = exercise_id /\ prs[i].pr_type = pr_type
                 THEN row ELSE prs[i]]
        ELSE Append(prs, row)

(* ON DELETE CASCADE with the cascade missing *)
CascadeNone(wid) == sets

(* FOREIGN KEY (workout_id) REFERENCES workouts(id) ON DELETE CASCADE: the
   sets left when workout wid is deleted *)
Cascade(wid) == {x \in sets : x.workout_id # wid}

(* ExerciseReferenced with the foreign key of personal_records missing *)
ExerciseReferencedBySets(id) == \E x \in sets : x.exercise_id = id

(* FOREIGN KEY (exercise_id) REFERENCES exercises(id) of sets and of
   personal_records, neither with ON DELETE CASCADE: a row refers to the
   exercise *)
ExerciseReferenced(id) ==
    \/ \E x \in sets : x.exercise_id = id
    \/ \E i \in DOMAIN prs : prs[i].exercise_id = id

(* log_pr *)
LogPr(exercise_id, pr_type, value, achieved_date) ==
    Append(prs, [exercise_id |-> exercise_id, pr_type |-> pr_type,
                 value |-> value, achieved_date |-> achieved_date])

----------------------------------------------------------------------------
(* The store after init_database and the first two exercises, and no session
   opened yet *)
Fresh ==
    /\ exercises = {[id |-> 1, name |-> <<"Squat">>, category |-> "Lower Strength"],
                    [id |-> 2, name |-> <<"Easy">>, category |-> "Easy Run"]}
    /\ nextExerciseId = 3
    /\ workouts = {}
    /\ sets = {}
    /\ prs = <<>>
    /\ nextWorkoutId = 1
    /\ nextSetId = 1
    /\ workout_id = [s \in Sessions |-> NoWorkout]
    /\ pc = [s \in Sessions |-> "new"]
    /\ flow = [s \in Sessions |-> NoFlow]
    /\ assigned = {}

Init == today = 1 /\ Fresh

(* The calendar day changes *)
Midnight ==
    /\ today < MaxDay
    /\ today' = today + 1
    /\ UNCHANGED <<store, workout_id, pc, flow>>
    /\ UNCHANGED assigned

(* app.py 22-23 with get_or_create_todays_workout: the SELECT *)
GetTodaysWorkout(s) ==
    /\ pc[s] = "new"
    /\ IF \E w \in workouts : w.workout_date = today
       THEN \E w \in workouts :
               /\ w.workout_date = today
               /\ workout_id' = [workout_id EXCEPT ![s] = w.id]
               /\ pc' = [pc EXCEPT ![s] = "idle"]
               /\ flow' = flow
       ELSE /\ pc' = [pc EXCEPT ![s] = "create"]
            /\ flow' = [flow EXCEPT ![s] = [NoFlow EXCEPT !.today = today]]
            /\ workout_id' = workout_id
    /\ UNCHANGED <<today, store>>
    /\ UNCHANGED assigned

(* get_or_create_todays_workout: create_workout(today), its own transaction *)
CreateWorkout(s) ==
    /\ pc[s] = "create"
    /\ nextWorkoutId <= MaxWorkoutId
    /\ workouts' = workouts \cup
          {[id |-> nextWorkoutId, workout_date |-> flow[s].today, notes |-> ""]}
    /\ nextWorkoutId' = nextWorkoutId + 1
    /\ workout_id' = [workout_id EXCEPT ![s] = nextWorkoutId]
    /\ pc' = [pc EXCEPT ![s] = "idle"]
    /\ flow' = [flow EXCEPT ![s] = NoFlow]
    /\ UNCHANGED <<today, exercises, nextExerciseId, sets, prs, nextSetId>>
    /\ UNCHANGED assigned

(* A new browser session: session_state starts empty *)
NewSession(s) ==
    /\ pc[s] \in {"idle", "crashed"}
    /\ pc' = [pc EXCEPT ![s] = "new"]
    /\ workout_id' = [workout_id EXCEPT ![s] = NoWorkout]
    /\ flow' = [flow EXCEPT ![s] = NoFlow]
    /\ UNCHANGED <<today, store>>
    /\ UNCHANGED assigned

(* Log Workout, strength form, app.py 709-725: validate, then add_set *)
AddStrengthSet(s) ==
    /\ pc[s] = "idle"
    /\ nextSetId <= MaxSetId
    /\ \E e \in exercises, reps \in RepsInputs \cup InvalidReps,
          weight \in WeightInputs \cup InvalidWeights :
          /\ ~IsRunning(exercises, e.id)
          /\ validate_set_input(reps, weight)
          /\ CanAddSet(workout_id[s], e.id)
          /\ sets' = sets \cup {AddSetRow(workout_id[s], e.id, reps, weight)}
          /\ flow' = [flow EXCEPT ![s] =
                [NoFlow EXCEPT !.today = today, !.exercise_id = e.id,
                               !.reps = reps, !.weight = weight,
                               !.set_id = nextSetId]]
    /\ nextSetId' = nextSetId + 1
    /\ pc' = [pc EXCEPT ![s] = "added"]
    /\ UNCHANGED <<today, exercises, nextExerciseId, workouts, prs, nextWorkoutId, workout_id>>
    /\ assigned' = assigned \cup
          {<<workout_id[s], flow'[s].exercise_id,
             NextSetNumber(workout_id[s], flow'[s].exercise_id)>>}

(* app.py 727 *)
CheckIfPr(s) ==
    /\ pc[s] = "added"
    /\ flow' = [flow EXCEPT ![s].pr_check =
          check_if_pr(flow[s].exercise_id, flow[s].weight, flow[s].reps,
                      flow[s].today)]
    /\ pc' = [pc EXCEPT ![s] = "checked"]
    /\ UNCHANGED <<today, store, workout_id>>
    /\ UNCHANGED assigned

(* app.py 729-732 *)
LogWeightPr(s) ==
    /\ pc[s] = "checked"
    /\ prs' = IF flow[s].pr_check.is_weight_pr
              THEN LogPr(flow[s].exercise_id, "weight", flow[s].weight * 30,
                         flow[s].today)
              ELSE prs
    /\ pc' = [pc EXCEPT ![s] = "weighed"]
    /\ UNCHANGED <<today, exercises, nextExerciseId, workouts, sets, nextWorkoutId, nextSetId,
                   workout_id, flow>>
    /\ UNCHANGED assigned

(* app.py 734-742 *)
Log1rmPr(s) ==
    /\ pc[s] = "weighed"
    /\ prs' = IF flow[s].pr_check.is_1rm_pr
              THEN LogPr(flow[s].exercise_id, "1rm",
                         calculate_estimated_1rm(flow[s].weight, flow[s].reps),
                         flow[s].today)
              ELSE prs
    /\ pc' = [pc EXCEPT ![s] = "idle"]
    /\ flow' = [flow EXCEPT ![s] = NoFlow]
    /\ UNCHANGED <<today, exercises, nextExerciseId, workouts, sets, nextWorkoutId, nextSetId,
                   workout_id>>
    /\ UNCHANGED assigned

(* Log Workout, run form, app.py 663-680: validate, then add_set *)
AddRun(s) ==
    /\ pc[s] = "idle"
    /\ nextSetId <= MaxSetId
    /\ \E e \in exercises, miles \in MilesInputs \cup InvalidMiles,
          time_minutes \in TimeInputs \cup InvalidTimes, heart_rate \in HrInputs :
          /\ IsRunning(exercises, e.id)
          /\ ~(miles <= 0) /\ ~(time_minutes <= 0)
          /\ CanAddSet(workout_id[s], e.id)
          /\ sets' = sets \cup {AddSetRow(workout_id[s], e.id,
                                          RepsOfMiles(miles), time_minutes)}
          /\ flow' = [flow EXCEPT ![s] =
                [NoFlow EXCEPT !.today = today, !.exercise_id = e.id,
                               !.miles = miles, !.time_minutes = time_minutes,
                               !.heart_rate = heart_rate,
                               !.set_id = nextSetId]]
    /\ nextSetId' = nextSetId + 1
    /\ pc' = [pc EXCEPT ![s] = "run_added"]
    /\ UNCHANGED <<today, exercises, nextExerciseId, workouts, prs, nextWorkoutId, workout_id>>
    /\ assigned' = assigned \cup
          {<<workout_id[s], flow'[s].exercise_id,
             NextSetNumber(workout_id[s], flow'[s].exercise_id)>>}

(* app.py 682 *)
UpdateHr(s) ==
    /\ pc[s] = "run_added"
    /\ sets' = UpdateLastSetHr(workout_id[s], flow[s].exercise_id,
                               flow[s].heart_rate)
    /\ pc' = [pc EXCEPT ![s] = "run_hr"]
    /\ UNCHANGED <<today, exercises, nextExerciseId, workouts, prs, nextWorkoutId, nextSetId,
                   workout_id, flow>>
    /\ UNCHANGED assigned

(* app.py 684 *)
CheckRunningPr(s) ==
    /\ pc[s] = "run_hr"
    /\ flow' = [flow EXCEPT ![s].pr_check =
          check_running_pr(flow[s].exercise_id, flow[s].miles,
                           flow[s].time_minutes, flow[s].today)]
    /\ pc' = [pc EXCEPT ![s] = "run_checked"]
    /\ UNCHANGED <<today, store, workout_id>>
    /\ UNCHANGED assigned

(* app.py 686-695: the message, then st.rerun(); no log_pr *)
RunDone(s) ==
    /\ pc[s] = "run_checked"
    /\ pc' = [pc EXCEPT ![s] = "idle"]
    /\ flow' = [flow EXCEPT ![s] = NoFlow]
    /\ UNCHANGED <<today, store, workout_id>>
    /\ UNCHANGED assigned

(* delete_set, from a delete button *)
DeleteSet(s) ==
    /\ pc[s] = "idle"
    /\ \E x \in sets : sets' = sets \ {x}
    /\ UNCHANGED <<today, exercises, nextExerciseId, workouts, prs, nextWorkoutId, nextSetId,
                   workout_id, pc, flow>>
    /\ UNCHANGED assigned

(* delete_workout, History page: ON DELETE CASCADE removes its sets *)
DeleteWorkout(s) ==
    /\ pc[s] = "idle"
    /\ \E w \in workouts :
          /\ workouts' = workouts \ {w}
          /\ sets' = Cascade(w.id)
    /\ UNCHANGED <<today, exercises, nextExerciseId, prs, nextWorkoutId, nextSetId,
                   workout_id, pc, flow>>
    /\ UNCHANGED assigned

(* The script run dies between two database calls *)
Crash(s) ==
    /\ pc[s] \in {"added", "checked", "weighed"}
    /\ pc' = [pc EXCEPT ![s] = "crashed"]
    /\ UNCHANGED <<today, store, workout_id, flow>>
    /\ UNCHANGED assigned

(* Log Workout, strength form, app.py 709-713: validate_set_input refuses the
   input and st.error shows the reason *)
RejectStrengthSet(s) ==
    /\ pc[s] = "idle"
    /\ \E reps \in RepsInputs \cup InvalidReps,
          weight \in WeightInputs \cup InvalidWeights :
          /\ ~validate_set_input(reps, weight)
          /\ flow' = [flow EXCEPT ![s] =
                [NoFlow EXCEPT !.error = validate_set_input_reason(reps, weight)]]
    /\ pc' = [pc EXCEPT ![s] = "rejected"]
    /\ UNCHANGED <<today, store, workout_id>>
    /\ UNCHANGED assigned

(* Log Workout, run form, app.py 663-667 *)
RejectRun(s) ==
    /\ pc[s] = "idle"
    /\ \E miles \in MilesInputs \cup InvalidMiles,
          time_minutes \in TimeInputs \cup InvalidTimes :
          /\ miles <= 0 \/ time_minutes <= 0
          /\ flow' = [flow EXCEPT ![s] =
                [NoFlow EXCEPT !.error = IF miles <= 0
                                         THEN "Miles must be positive"
                                         ELSE "Time must be positive"]]
    /\ pc' = [pc EXCEPT ![s] = "run_rejected"]
    /\ UNCHANGED <<today, store, workout_id>>
    /\ UNCHANGED assigned

(* The script run has ended on a message; the next one starts afresh *)
Dismiss(s) ==
    /\ pc[s] \in {"rejected", "run_rejected", "returned"}
    /\ pc' = [pc EXCEPT ![s] = "idle"]
    /\ flow' = [flow EXCEPT ![s] = NoFlow]
    /\ UNCHANGED <<today, store, workout_id>>
    /\ UNCHANGED assigned

(* History page, app.py 1081: delete_set(set_id); DELETE FROM sets WHERE id = %s
   deletes what matches and raises nothing *)
DeleteSetId(s) ==
    /\ pc[s] = "idle"
    /\ \E id \in 1 .. nextSetId :
          /\ sets' = {x \in sets : x.id # id}
          /\ flow' = [flow EXCEPT ![s] =
                [NoFlow EXCEPT !.cmd = "delete_set", !.target = id,
                               !.removed = Cardinality({x \in sets : x.id = id})]]
    /\ pc' = [pc EXCEPT ![s] = "returned"]
    /\ UNCHANGED <<today, exercises, nextExerciseId, workouts, prs, nextWorkoutId,
                   nextSetId, workout_id>>
    /\ UNCHANGED assigned

(* History page, app.py 1114: delete_workout(workout_id) *)
DeleteWorkoutId(s) ==
    /\ pc[s] = "idle"
    /\ \E id \in 1 .. nextWorkoutId :
          /\ workouts' = {w \in workouts : w.id # id}
          /\ sets' = Cascade(id)
          /\ flow' = [flow EXCEPT ![s] =
                [NoFlow EXCEPT !.cmd = "delete_workout", !.target = id,
                               !.removed = Cardinality(sets \ Cascade(id))]]
    /\ pc' = [pc EXCEPT ![s] = "returned"]
    /\ UNCHANGED <<today, exercises, nextExerciseId, prs, nextWorkoutId, nextSetId,
                   workout_id>>
    /\ UNCHANGED assigned

(* History page, app.py 1107: update_workout_notes(workout_id, notes) *)
UpdateNotesId(s) ==
    /\ pc[s] = "idle"
    /\ \E id \in 1 .. nextWorkoutId, notes \in NotesInputs :
          /\ workouts' = {IF w.id = id THEN [w EXCEPT !.notes = notes] ELSE w
                          : w \in workouts}
          /\ flow' = [flow EXCEPT ![s] =
                [NoFlow EXCEPT !.cmd = "update_workout_notes", !.target = id]]
    /\ pc' = [pc EXCEPT ![s] = "returned"]
    /\ UNCHANGED <<today, exercises, nextExerciseId, sets, prs, nextWorkoutId,
                   nextSetId, workout_id>>
    /\ UNCHANGED assigned

(* Manage Exercises, app.py 1243: delete_exercise(exercise_id); the foreign
   keys of sets and personal_records, without CASCADE, make the DELETE fail
   while a row refers to the exercise *)
DeleteExerciseId(s) ==
    /\ pc[s] = "idle"
    /\ \E id \in 1 .. nextExerciseId :
          IF ExerciseReferenced(id)
          THEN /\ exercises' = exercises
               /\ flow' = [flow EXCEPT ![s] =
                     [NoFlow EXCEPT !.cmd = "delete_exercise", !.target = id,
                                    !.error = "ForeignKeyViolation"]]
          ELSE /\ exercises' = {e \in exercises : e.id # id}
               /\ flow' = [flow EXCEPT ![s] =
                     [NoFlow EXCEPT !.cmd = "delete_exercise", !.target = id]]
    /\ pc' = [pc EXCEPT ![s] = "returned"]
    /\ UNCHANGED <<today, nextExerciseId, workouts, sets, prs, nextWorkoutId,
                   nextSetId, workout_id>>
    /\ UNCHANGED assigned

(* Manage Exercises, app.py 1210-1220: the form's checks, then add_exercise,
   whose INSERT of name.strip() is subject to UNIQUE (name); the failed INSERT
   has drawn its id from the sequence all the same *)
AddExercise(s) ==
    /\ pc[s] = "idle"
    /\ nextExerciseId <= MaxExerciseId
    /\ \E name \in NameInputs :
          IF name = <<>>
          THEN /\ flow' = [flow EXCEPT ![s] =
                     [NoFlow EXCEPT !.cmd = "add_exercise", !.name = name,
                                    !.error = "Enter a name"]]
               /\ UNCHANGED <<exercises, nextExerciseId>>
          ELSE IF \E e \in exercises : e.name = name
          THEN /\ flow' = [flow EXCEPT ![s] =
                     [NoFlow EXCEPT !.cmd = "add_exercise", !.name = name,
                                    !.error = "Already exists"]]
               /\ UNCHANGED <<exercises, nextExerciseId>>
          ELSE IF \E e \in exercises : e.name = strip(name)
          THEN /\ flow' = [flow EXCEPT ![s] =
                     [NoFlow EXCEPT !.cmd = "add_exercise", !.name = name,
                                    !.error = "UniqueViolation"]]
               /\ exercises' = exercises
               /\ nextExerciseId' = nextExerciseId + 1
          ELSE /\ flow' = [flow EXCEPT ![s] =
                     [NoFlow EXCEPT !.cmd = "add_exercise", !.name = name]]
               /\ exercises' = exercises \cup
                     {[id |-> nextExerciseId, name |-> strip(name),
                       category |-> "Upper Strength"]}
               /\ nextExerciseId' = nextExerciseId + 1
    /\ pc' = [pc EXCEPT ![s] = "returned"]
    /\ UNCHANGED <<today, workouts, sets, prs, nextWorkoutId, nextSetId,
                   workout_id>>
    /\ UNCHANGED assigned

(* Log Workout, strength form, app.py 709-725 when the workout row of the
   cached id is gone: the INSERT of add_set violates the foreign key on
   workout_id and the script run ends on the exception; the failed INSERT
   has drawn its id from the sequence *)
AddStrengthSetFails(s) ==
    /\ pc[s] = "idle"
    /\ nextSetId <= MaxSetId
    /\ \E e \in exercises, reps \in RepsInputs, weight \in WeightInputs :
          /\ ~IsRunning(exercises, e.id)
          /\ validate_set_input(reps, weight)
          /\ ~CanAddSet(workout_id[s], e.id)
          /\ flow' = [flow EXCEPT ![s] =
                [NoFlow EXCEPT !.cmd = "add_set", !.target = workout_id[s],
                               !.error = "ForeignKeyViolation"]]
    /\ nextSetId' = nextSetId + 1
    /\ pc' = [pc EXCEPT ![s] = "returned"]
    /\ UNCHANGED <<today, exercises, nextExerciseId, workouts, sets, prs,
                   nextWorkoutId, workout_id>>
    /\ UNCHANGED assigned

(* History page, app.py 1074-1078: the save button of a strength set whose
   reps or weight were changed calls db.update_set, which database.py does not
   define: the call raises AttributeError and the script run ends there *)
UpdateSetId(s) ==
    /\ pc[s] = "idle"
    /\ \E x \in sets, new_reps \in RepsInputs, new_weight \in WeightInputs :
          /\ ~IsRunning(exercises, x.exercise_id)
          /\ new_reps # x.reps \/ new_weight # x.weight
          /\ flow' = [flow EXCEPT ![s] =
                [NoFlow EXCEPT !.cmd = "update_set", !.target = x.id,
                               !.reps = new_reps, !.weight = new_weight,
                               !.error = "AttributeError"]]
    /\ pc' = [pc EXCEPT ![s] = "returned"]
    /\ UNCHANGED <<today, store, workout_id>>
    /\ UNCHANGED assigned

(* database.py 236-255: add_set(workout_id, exercise_id, reps, weight) called
   for a running exercise with the session's workout *)
AddSetCall(s) ==
    /\ pc[s] = "idle"
    /\ nextSetId <= MaxSetId
    /\ \E e \in exercises, reps \in CallReps, weight \in TimeInputs :
          /\ IsRunning(exercises, e.id)
          /\ CanAddSet(workout_id[s], e.id)
          /\ sets' = sets \cup {AddSetRow(workout_id[s], e.id, reps, weight)}
          /\ flow' = [flow EXCEPT ![s] =
                [NoFlow EXCEPT !.cmd = "add_set", !.exercise_id = e.id,
                               !.set_id = nextSetId]]
          /\ assigned' = assigned \cup
                {<<workout_id[s], e.id, NextSetNumber(workout_id[s], e.id)>>}
    /\ nextSetId' = nextSetId + 1
    /\ pc' = [pc EXCEPT ![s] = "returned"]
    /\ UNCHANGED <<today, exercises, nextExerciseId, workouts, prs,
                   nextWorkoutId, workout_id>>

(* database.py 514-552: check_running_pr(exercise_id, miles, time_minutes,
   workout_date) called with today's date *)
CheckRunningPrCall(s) ==
    /\ pc[s] = "idle"
    /\ \E e \in exercises, miles \in CallMiles, time_minutes \in TimeInputs :
          /\ IsRunning(exercises, e.id)
          /\ flow' = [flow EXCEPT ![s] =
                [NoFlow EXCEPT
                    !.cmd = "check_running_pr", !.exercise_id = e.id,
                    !.miles = miles, !.time_minutes = time_minutes,
                    !.today = today,
                    !.error = check_running_pr_error(e.id, miles, today),
                    !.pr_check =
                        IF check_running_pr_error(e.id, miles, today) = ""
                        THEN check_running_pr(e.id, miles, time_minutes, today)
                        ELSE NoCheck]]
    /\ pc' = [pc EXCEPT ![s] = "returned"]
    /\ UNCHANGED <<today, store, workout_id>>
    /\ UNCHANGED assigned

(* database.py 496-512: get_running_stats(exercise_id) *)
GetRunningStatsCall(s) ==
    /\ pc[s] = "idle"
    /\ \E e \in exercises :
          /\ IsRunning(exercises, e.id)
          /\ flow' = [flow EXCEPT ![s] =
                [NoFlow EXCEPT !.cmd = "get_running_stats",
                               !.exercise_id = e.id,
                               !.error = get_running_stats_error(e.id)]]
    /\ pc' = [pc EXCEPT ![s] = "returned"]
    /\ UNCHANGED <<today, store, workout_id>>
    /\ UNCHANGED assigned

(* database.py 120-128: add_exercise(name, category = None), called with a
   category or with the name alone *)
AddExerciseCall(s) ==
    /\ pc[s] = "idle"
    /\ nextExerciseId <= MaxExerciseId
    /\ \E name \in CallNames, category \in CallCategories \cup {NULL} :
          IF \E e \in exercises : e.name = strip(name)
          THEN /\ flow' = [flow EXCEPT ![s] =
                     [NoFlow EXCEPT !.cmd = "add_exercise", !.name = name,
                                    !.error = "UniqueViolation"]]
               /\ exercises' = exercises
          ELSE /\ flow' = [flow EXCEPT ![s] =
                     [NoFlow EXCEPT !.cmd = "add_exercise", !.name = name]]
               /\ exercises' = exercises \cup
                     {[id |-> nextExerciseId, name |-> strip(name),
                       category |-> category]}
    /\ nextExerciseId' = nextExerciseId + 1
    /\ pc' = [pc EXCEPT ![s] = "returned"]
    /\ UNCHANGED <<today, workouts, sets, prs, nextWorkoutId, nextSetId,
                   workout_id>>
    /\ UNCHANGED assigned

(* One script run of session s *)
Step(s) ==
    \/ GetTodaysWorkout(s)
    \/ CreateWorkout(s)
    \/ NewSession(s)
    \/ AddStrengthSet(s)
    \/ CheckIfPr(s)
    \/ LogWeightPr(s)
    \/ Log1rmPr(s)
    \/ AddRun(s)
    \/ UpdateHr(s)
    \/ CheckRunningPr(s)
    \/ RunDone(s)
    \/ DeleteSet(s)
    \/ DeleteWorkout(s)

(* The deployment the application is written for: one user, one session *)
Next == Midnight \/ Step("s1")

Spec == Init /\ [][Next]_vars

(* The same, with the script run allowed to die between database calls *)
SpecCrash == Init /\ [][Next \/ Crash("s1")]_vars

(* Two sessions opening the application *)
NextOpen ==
    \/ Midnight
    \/ \E s \in Sessions :
          \/ GetTodaysWorkout(s)
          \/ CreateWorkout(s)
          \/ NewSession(s)

SpecOpen == Init /\ [][NextOpen]_vars

(* The Log Workout forms given input of any kind *)
NextInvalid ==
    \/ Midnight
    \/ GetTodaysWorkout("s1")
    \/ CreateWorkout("s1")
    \/ NewSession("s1")
    \/ AddStrengthSet("s1")
    \/ CheckIfPr("s1")
    \/ LogWeightPr("s1")
    \/ Log1rmPr("s1")
    \/ AddRun("s1")
    \/ UpdateHr("s1")
    \/ CheckRunningPr("s1")
    \/ RunDone("s1")
    \/ RejectStrengthSet("s1")
    \/ RejectRun("s1")
    \/ Dismiss("s1")

SpecInvalid == Init /\ [][NextInvalid]_vars

(* The History page and delete_exercise, their commands given any id, next
   to the run form *)
NextIds ==
    \/ GetTodaysWorkout("s1")
    \/ CreateWorkout("s1")
    \/ NewSession("s1")
    \/ AddRun("s1")
    \/ UpdateHr("s1")
    \/ CheckRunningPr("s1")
    \/ RunDone("s1")
    \/ DeleteSetId("s1")
    \/ DeleteWorkoutId("s1")
    \/ UpdateNotesId("s1")
    \/ DeleteExerciseId("s1")
    \/ Dismiss("s1")

SpecIds == Init /\ [][NextIds]_vars

(* The Manage Exercises page *)
NextExercises ==
    \/ Midnight
    \/ GetTodaysWorkout("s1")
    \/ CreateWorkout("s1")
    \/ NewSession("s1")
    \/ AddExercise("s1")
    \/ DeleteExerciseId("s1")
    \/ Dismiss("s1")

SpecExercises == Init /\ [][NextExercises]_vars

(* The Log Workout forms over a store whose exercises come from add_exercise
   as well *)
NextSummary ==
    \/ Midnight
    \/ GetTodaysWorkout("s1")
    \/ CreateWorkout("s1")
    \/ NewSession("s1")
    \/ AddStrengthSet("s1")
    \/ CheckIfPr("s1")
    \/ LogWeightPr("s1")
    \/ Log1rmPr("s1")
    \/ AddRun("s1")
    \/ UpdateHr("s1")
    \/ CheckRunningPr("s1")
    \/ RunDone("s1")
    \/ AddExerciseCall("s1")
    \/ Dismiss("s1")

SpecSummary == Init /\ [][NextSummary]_vars

(* The Log Workout forms next to the History page and delete_exercise, within
   one day *)
NextHistory ==
    \/ GetTodaysWorkout("s1")
    \/ CreateWorkout("s1")
    \/ NewSession("s1")
    \/ AddStrengthSet("s1")
    \/ AddStrengthSetFails("s1")
    \/ CheckIfPr("s1")
    \/ LogWeightPr("s1")
    \/ Log1rmPr("s1")
    \/ AddRun("s1")
    \/ UpdateHr("s1")
    \/ CheckRunningPr("s1")
    \/ RunDone("s1")
    \/ DeleteSetId("s1")
    \/ DeleteWorkoutId("s1")
    \/ DeleteExerciseId("s1")
    \/ UpdateSetId("s1")
    \/ Dismiss("s1")

SpecHistory == Init /\ [][NextHistory]_vars

(* The running functions of database.py called on the store *)
NextPace ==
    \/ Midnight
    \/ GetTodaysWorkout("s1")
    \/ CreateWorkout("s1")
    \/ NewSession("s1")
    \/ AddSetCall("s1")
    \/ CheckRunningPrCall("s1")
    \/ GetRunningStatsCall("s1")
    \/ Dismiss("s1")

SpecPace == Init /\ [][NextPace]_vars

(* The application is opened on the next of the days around the new year *)
NewDay ==
    /\ \E d \in ViewDays : d > today /\ today' = d
    /\ UNCHANGED <<store, workout_id, pc, flow>>
    /\ UNCHANGED assigned

InitYear == today = 364 /\ Fresh

(* One session used over the turn of the year *)
NextYear == NewDay \/ Step("s1")

SpecYear == InitYear /\ [][NextYear]_vars

----------------------------------------------------------------------------
(* Properties *)

Days == 1 .. MaxDay

RunningExercises == {e \in exercises : e.category \in RUNNING_CATEGORIES}

(* The sets of an exercise in workouts dated strictly before a date *)
DatedBefore(exercise_id, d) ==
    {x \in sets : /\ x.exercise_id = exercise_id
                  /\ \E w \in workouts : w.id = x.workout_id /\ w.workout_date < d}

(* Candidate weights: the form's, with 0 and one above the largest *)
CandidateWeights == WeightInputs \cup {0, 17}

(* The spec's estimated_1rm, in thirtieths *)
Estimated1rm(weight, reps) ==
    IF reps = 1 THEN weight * 30 ELSE weight * (30 + reps)

HasPr(exercise_id, pr_type, achieved_date) ==
    \E i \in DOMAIN prs : /\ prs[i].exercise_id = exercise_id
                          /\ prs[i].pr_type = pr_type
                          /\ prs[i].achieved_date = achieved_date

(* C1 as stated: once the run form has had a run evaluated, check_running_pr
   gives is_pace_pr = false for a running exercise with no set dated before
   the candidate date, whatever the miles and the time, and so did the
   evaluation of the run itself. *)
C1_FirstRunNeverPacePr ==
    \A s \in Sessions :
       pc[s] = "run_checked" =>
          /\ \A e \in RunningExercises, d \in Days, m \in MilesInputs,
                t \in TimeInputs :
                DatedBefore(e.id, d) = {} => ~IsPacePr(e.id, m, t, d)
          /\ DatedBefore(flow[s].exercise_id, flow[s].today) = {}
                => ~flow[s].pr_check.is_pace_pr

(* C1 amended: with no set dated before the candidate date, is_pace_pr is
   true exactly when time_minutes / miles is below the 999 min/mile that
   stands for "no prior pace"; this holds of check_running_pr for every
   candidate on the store the run form leaves, and of the flag the run form
   gets back. *)
C1_FirstRunPacePrBelowSentinel ==
    \A s \in Sessions :
       pc[s] = "run_checked" =>
          /\ \A e \in RunningExercises, d \in Days, m \in MilesInputs,
                t \in TimeInputs :
                DatedBefore(e.id, d) = {} =>
                   (IsPacePr(e.id, m, t, d) <=> t * 100 < 999 * m)
          /\ DatedBefore(flow[s].exercise_id, flow[s].today) = {}
                => (flow[s].pr_check.is_pace_pr
                       <=> flow[s].time_minutes * 100 < 999 * flow[s].miles)

(* A first-ever run has been evaluated and flagged as a pace PR *)
C1_Witness ==
    \E s \in Sessions :
       /\ pc[s] = "run_checked"
       /\ DatedBefore(flow[s].exercise_id, flow[s].today) = {}
       /\ \E x \in sets : x.id = flow[s].set_id
       /\ flow[s].pr_check.is_pace_pr

(* C2: when the Log Workout flow is about to evaluate the PR, the set it has
   just written is not among the rows the evaluation reads as prior history. *)
C2_WrittenSetNotPrior ==
    \A s \in Sessions :
       pc[s] \in {"added", "run_hr"} =>
          ~\E x \in PriorSets(flow[s].exercise_id, flow[s].today) :
              x.id = flow[s].set_id

(* C3: is_1rm_pr is true exactly when the candidate's estimated_1rm exceeds
   the largest estimated_1rm of the sets dated before the candidate date
   (0 when there are none), the same formula on both sides. *)
C3_1rmPrRule ==
    \A e \in exercises \ RunningExercises, d \in Days, w \in CandidateWeights, r \in RepsInputs :
       check_if_pr(e.id, w, r, d).is_1rm_pr
          <=> /\ Estimated1rm(w, r) > 0
              /\ \A x \in DatedBefore(e.id, d) :
                    Estimated1rm(w, r) > Estimated1rm(x.weight, x.reps)

(* The largest weight among the stored sets of the exercise other than the
   one just written (0 when there is none) *)
CurrentBest(exercise_id, set_id) ==
    LET others == {x \in sets : x.exercise_id = exercise_id /\ x.id # set_id}
    IN  IF others = {} THEN 0 ELSE MaxOf({x.weight : x \in others})

(* C4 as stated, in the direction "a set equal to the current best triggers
   none": logging a set appends a weight PR only if its weight exceeds the
   best weight of all the sets logged so far, the same day's included. *)
C4_NoPrUnlessAboveCurrentBest ==
    [][\A s \in Sessions :
          (pc[s] = "checked" /\ pc'[s] = "weighed" /\ prs' # prs) =>
             flow[s].weight > CurrentBest(flow[s].exercise_id, flow[s].set_id)]_vars

(* C4 amended: logging a set appends a weight PR if and only if its weight
   exceeds every weight of the exercise stored, when check_if_pr runs, in a
   workout dated strictly before the day of logging (and exceeds 0); sets of
   the same day do not count. *)
C4_PrIffAbovePriorDays ==
    [][\A s \in Sessions :
          /\ (pc[s] = "added" /\ pc'[s] = "checked") =>
                (flow'[s].pr_check.is_weight_pr <=>
                    /\ flow[s].weight > 0
                    /\ \A x \in DatedBefore(flow[s].exercise_id, flow[s].today) :
                          flow[s].weight > x.weight)
          /\ (pc[s] = "checked" /\ pc'[s] = "weighed") =>
                IF flow[s].pr_check.is_weight_pr
                THEN /\ Len(prs') = Len(prs) + 1
                     /\ SubSeq(prs', 1, Len(prs)) = prs
                     /\ prs'[Len(prs')].pr_type = "weight"
                     /\ prs'[Len(prs')].exercise_id = flow[s].exercise_id
                     /\ prs'[Len(prs')].value = flow[s].weight * 30
                ELSE prs' = prs]_vars

(* A set heavier than the best of an earlier day has had its weight PR
   logged, and one equal to the best of an earlier day has had none *)
C4_Witness ==
    \E s \in Sessions :
       /\ pc[s] = "weighed"
       /\ \E x \in DatedBefore(flow[s].exercise_id, flow[s].today) :
             /\ x.id # flow[s].set_id
             /\ flow[s].weight = x.weight + 1
       /\ flow[s].pr_check.is_weight_pr
       /\ prs # <<>>
       /\ prs[Len(prs)].value = flow[s].weight * 30
       /\ prs[Len(prs)].achieved_date = flow[s].today

(* C5: is_weight_pr is true exactly when the weight exceeds the largest
   weight of the exercise's sets in workouts dated strictly before the date
   (0 when there are none); sets of the date itself or later do not count.
   Stated of check_if_pr for every candidate on the store the strength form
   leaves, and of the flag the strength form gets back. *)
C5_WeightPrRule ==
    \A s \in Sessions :
       pc[s] = "checked" =>
          /\ \A e \in exercises, d \in Days, w \in CandidateWeights :
                IsWeightPr(e.id, w, d)
                   <=> /\ w > 0
                       /\ \A x \in sets :
                             (/\ x.exercise_id = e.id
                              /\ \E k \in workouts : /\ k.id = x.workout_id
                                                     /\ k.workout_date < d)
                                => w > x.weight
          /\ flow[s].pr_check.is_weight_pr
                <=> /\ flow[s].weight > 0
                    /\ \A x \in sets :
                          (/\ x.exercise_id = flow[s].exercise_id
                           /\ \E k \in workouts :
                                  /\ k.id = x.workout_id
                                  /\ k.workout_date < flow[s].today)
                             => flow[s].weight > x.weight

(* A set has been evaluated as a weight PR although a set of the same day is
   as heavy, and there is one of an earlier day *)
C5_Witness ==
    \E s \in Sessions :
       /\ pc[s] = "checked"
       /\ flow[s].pr_check.is_weight_pr
       /\ \E x \in sets, k \in workouts :
             /\ x.id # flow[s].set_id
             /\ x.exercise_id = flow[s].exercise_id
             /\ k.id = x.workout_id
             /\ k.workout_date = flow[s].today
             /\ x.weight >= flow[s].weight

(* C6: when the run form's flow ends, a 'pace' row is in the PR log if the
   evaluation returned is_pace_pr, and a 'distance' row if it returned
   is_distance_pr. *)
C6_RunPrLogged ==
    [][\A s \in Sessions :
          (pc[s] = "run_checked" /\ pc'[s] = "idle") =>
             /\ flow[s].pr_check.is_pace_pr =>
                   \E i \in DOMAIN prs' :
                      /\ prs'[i].exercise_id = flow[s].exercise_id
                      /\ prs'[i].pr_type = "pace"
                      /\ prs'[i].achieved_date = flow[s].today
             /\ flow[s].pr_check.is_distance_pr =>
                   \E i \in DOMAIN prs' :
                      /\ prs'[i].exercise_id = flow[s].exercise_id
                      /\ prs'[i].pr_type = "distance"
                      /\ prs'[i].achieved_date = flow[s].today]_vars

(* C7: after a failure in the add-set flow, either the set is not stored or
   every PR it qualifies for is in the log. *)
C7_SetAndPrAtomic ==
    \A s \in Sessions :
       (pc[s] = "crashed" /\ \E x \in sets : x.id = flow[s].set_id) =>
          LET q == check_if_pr(flow[s].exercise_id, flow[s].weight,
                               flow[s].reps, flow[s].today)
          IN  /\ q.is_weight_pr => HasPr(flow[s].exercise_id, "weight", flow[s].today)
              /\ q.is_1rm_pr => HasPr(flow[s].exercise_id, "1rm", flow[s].today)

(* C8: no two sets of one (workout, exercise) pair have the same set_number. *)
C8_SetNumberUnique ==
    \A x \in sets, y \in sets :
       (/\ x.workout_id = y.workout_id
        /\ x.exercise_id = y.exercise_id
        /\ x.set_number = y.set_number) => x.id = y.id

(* C9 as stated: the first add_set of a (workout, exercise) pair assigns 1,
   and every later one a number above every number assigned to the pair
   before, so that no number is reused after a deletion. *)
C9_SetNumberNeverReused ==
    [][\A s \in Sessions :
          (pc[s] = "idle" /\ pc'[s] \in {"added", "run_added"}) =>
             \E x \in sets' :
                /\ x.id = flow'[s].set_id
                /\ LET before == {a \in assigned : /\ a[1] = x.workout_id
                                                   /\ a[2] = x.exercise_id}
                   IN  IF before = {} THEN x.set_number = 1
                       ELSE \A a \in before : x.set_number > a[3]]_vars

(* C9 amended: add_set assigns 1 when no set of the pair is stored, and
   otherwise one more than the largest set_number stored for the pair, which
   is above every number still stored; a number is handed out again once
   every set holding it or a higher one has been deleted. *)
C9_NextAboveStored ==
    [][\A s \in Sessions :
          (pc[s] = "idle" /\ pc'[s] \in {"added", "run_added"}) =>
             \E x \in sets' \ sets :
                /\ x.id = flow'[s].set_id
                /\ sets' = sets \cup {x}
                /\ LET stored == {y \in sets : /\ y.workout_id = x.workout_id
                                               /\ y.exercise_id = x.exercise_id}
                   IN  IF stored = {} THEN x.set_number = 1
                       ELSE /\ \A y \in stored : x.set_number > y.set_number
                            /\ \E y \in stored :
                                  x.set_number = y.set_number + 1]_vars

(* The second set ever written has just been added to the one pair that has
   ever had a set, after the first was deleted, and has its number 1 again *)
C9_Witness ==
    \E s \in Sessions :
       /\ pc[s] = "added"
       /\ nextSetId = 3
       /\ Cardinality(assigned) = 1
       /\ \E x \in sets : /\ sets = {x}
                          /\ x.id = 2
                          /\ x.set_number = 1
                          /\ assigned = {<<x.workout_id, x.exercise_id, 1>>}

(* C10: at most one workout row per calendar date. *)
C10_OneWorkoutPerDate ==
    \A a \in workouts, b \in workouts :
       a.workout_date = b.workout_date => a.id = b.id

(* C11: when a valid strength set is logged, the flow appends exactly one
   'weight' row iff check_if_pr returned is_weight_pr, and exactly one '1rm'
   row iff it returned is_1rm_pr, and nothing else: two rows when both flags
   are true, none when both are false. *)
C11_OneRowPerFlag ==
    [][\A s \in Sessions :
          /\ (pc[s] = "checked" /\ pc'[s] = "weighed") =>
                IF flow[s].pr_check.is_weight_pr
                THEN /\ Len(prs') = Len(prs) + 1
                     /\ SubSeq(prs', 1, Len(prs)) = prs
                     /\ prs'[Len(prs')].pr_type = "weight"
                     /\ prs'[Len(prs')].exercise_id = flow[s].exercise_id
                ELSE prs' = prs
          /\ (pc[s] = "weighed" /\ pc'[s] = "idle") =>
                IF flow[s].pr_check.is_1rm_pr
                THEN /\ Len(prs') = Len(prs) + 1
                     /\ SubSeq(prs', 1, Len(prs)) = prs
                     /\ prs'[Len(prs')].pr_type = "1rm"
                     /\ prs'[Len(prs')].exercise_id = flow[s].exercise_id
                ELSE prs' = prs
          /\ (pc[s] \in {"idle", "added"} /\ pc'[s] \in {"added", "checked"})
                => prs' = prs]_vars

(* The only set ever logged has left two rows, 'weight' then '1rm' *)
C11_Witness ==
    /\ nextSetId = 2
    /\ pc["s1"] = "idle"
    /\ Len(prs) = 2
    /\ prs[1].pr_type = "weight"
    /\ prs[2].pr_type = "1rm"
    /\ prs[1].exercise_id = prs[2].exercise_id
    /\ prs[1].achieved_date = prs[2].achieved_date

(* The ISO 8601 week-numbering year of a day *)
IsoYear(d) ==
    LET c == Civil(d)
        w == (c.doy - IsoWeekday(d) + 10) \div 7
    IN  IF w < 1 THEN c.year - 1
        ELSE IF w > WeeksInYear(c.year) THEN c.year + 1
        ELSE c.year

(* C12: when the Weekly Mileage page is drawn with running data, the bucket
   it looks up as last week is the ISO week, with its year, of the day seven
   days before today: week 52 of 2024 on every day of ISO week 1 of 2025. *)
C12_LastWeekIsPreviousIsoWeek ==
    (pc["s1"] = "idle" /\ RunSets # {}) =>
       /\ LastWeekBucket = [week |-> IsoWeek(today - 7), year |-> IsoYear(today - 7)]
       /\ (IsoWeek(today) = 1 /\ IsoYear(today) = 2025)
             => LastWeekBucket = [week |-> 52, year |-> 2024]

IsoKey(d) == IsoYear(d) * 100 + IsoWeek(d)

TrendWeeks == {1, 2}

RECURSIVE OldestFirst(_)
OldestFirst(S) ==
    IF S = {} THEN <<>>
    ELSE LET x == CHOOSE y \in S : \A z \in S : y.key <= z.key
         IN  <<x>> \o OldestFirst(S \ {x})

(* One row per ISO week and ISO year holding a strength set, oldest first,
   the last N of them, as <<week, volume>> *)
ExpectedTrend(N) ==
    LET keys == {IsoKey(WorkoutDate(x)) : x \in StrengthSets}
        rows == {[key |-> k, week |-> k % 100,
                  volume |-> SumVolume(
                      {x \in StrengthSets : IsoKey(WorkoutDate(x)) = k})]
                 : k \in keys}
        all == OldestFirst(rows)
        kept == IF Len(all) <= N THEN all
                ELSE SubSeq(all, Len(all) - N + 1, Len(all))
    IN  [i \in DOMAIN kept |-> <<kept[i].week, kept[i].volume>>]

(* C13: get_weekly_volume_trend(N) has one bucket per ISO week holding a
   strength set (two sets share a bucket iff their workout dates lie in the
   same ISO week), summing reps * weight, keeps the N most recent buckets and
   lists them oldest to newest, also across a year boundary. *)
C13_TrendByIsoWeek ==
    pc["s1"] = "idle" =>
       \A N \in TrendWeeks :
          LET trend == get_weekly_volume_trend(N)
          IN  [i \in DOMAIN trend |-> <<trend[i].week, trend[i].volume>>]
                 = ExpectedTrend(N)

RECURSIVE ConsecutiveBack(_, _)
(* The number of consecutive days of D ending with day d *)
ConsecutiveBack(D, d) ==
    IF d \in D THEN 1 + ConsecutiveBack(D, d - 1) ELSE 0

(* The dates of the workouts that have a set *)
DatesWithSets == {w.workout_date : w \in {v \in workouts : \E x \in sets : x.workout_id = v.id}}

(* C14: get_workout_streak is 0 when no workout has a set or the latest date
   with a set is neither today nor yesterday, and otherwise the number of
   consecutive dates with a set counted back from that latest date to the
   first gap; workouts without sets count for nothing. *)
C14_StreakRule ==
    pc["s1"] = "idle" =>
       get_workout_streak =
          IF DatesWithSets = {} THEN 0
          ELSE IF MaxOf(DatesWithSets) \notin {today, today - 1} THEN 0
          ELSE ConsecutiveBack(DatesWithSets, MaxOf(DatesWithSets))

(* A streak of two days ending today *)
C14_Witness ==
    /\ pc["s1"] = "idle"
    /\ get_workout_streak = 2
    /\ today \in DatesWithSets
    /\ today - 1 \in DatesWithSets

(* The miles typed for a stored run: the form value that is stored as its reps *)
MilesLogged(x) == CHOOSE m \in MilesInputs : RepsOfMiles(m) = x.reps

(* C15: in the run-logging flow is_distance_pr comes back true exactly when
   the candidate's miles are above 0 and above the miles of every run of the
   exercise dated strictly before the candidate date; a run as long as the
   longest earlier run is no distance PR.  Stated for a run written to the
   workout of the day it is logged on. *)
C15_DistancePrRule ==
    \A s \in Sessions :
       (/\ pc[s] = "run_checked"
        /\ \E x \in sets : x.id = flow[s].set_id /\ WorkoutDate(x) = flow[s].today) =>
          (flow[s].pr_check.is_distance_pr
             <=> /\ flow[s].miles > 0
                 /\ \A x \in DatedBefore(flow[s].exercise_id, flow[s].today) :
                       flow[s].miles > MilesLogged(x))

(* Arguments around the limits of validate_set_input *)
ValidateReps == {-1, 0, 1, 100, 101}

ValidateWeights == {-1, 0, 1000, 1001}

(* C16: validate_set_input refuses exactly reps <= 0, reps > 100, weight < 0
   and weight > 1000, with a reason, and accepts the rest with none; a log
   attempt the handler refuses leaves the store as it was and ends without
   an evaluation of the PR, and no set is written from refused input. *)
C16_InvalidInputRefused ==
    [][/\ \A reps \in ValidateReps, weight \in ValidateWeights :
             /\ validate_set_input(reps, weight)
                   <=> ~(reps <= 0 \/ reps > 100 \/ weight < 0 \/ weight > 1000)
             /\ validate_set_input(reps, weight)
                   <=> validate_set_input_reason(reps, weight) = ""
       /\ \A s \in Sessions :
             /\ (pc[s] = "idle" /\ pc'[s] = "added") =>
                   ~(\/ flow'[s].reps <= 0 \/ flow'[s].reps > 100
                     \/ flow'[s].weight < 0 \/ flow'[s].weight > 1000)
             /\ (pc[s] = "idle" /\ pc'[s] = "run_added") =>
                   ~(flow'[s].miles <= 0 \/ flow'[s].time_minutes <= 0)
             /\ (pc[s] = "idle" /\ pc'[s] \in {"rejected", "run_rejected"}) =>
                   /\ store' = store
                   /\ flow'[s].error # ""
                   /\ flow'[s].pr_check = NoCheck
             /\ (pc[s] \in {"rejected", "run_rejected"}) =>
                   /\ store' = store
                   /\ pc'[s] \in {pc[s], "idle"}]_vars

(* With sets stored, the strength form has refused 101 reps *)
C16_Witness ==
    /\ pc["s1"] = "rejected"
    /\ flow["s1"].error = "Reps seems too high (>100)"
    /\ sets # {}

(* The command a session has just had run matched no row *)
MatchedNoRow(f) ==
    \/ f.cmd = "delete_set" /\ ~\E x \in sets : x.id = f.target
    \/ f.cmd = "delete_workout" /\ ~\E w \in workouts : w.id = f.target
    \/ f.cmd = "update_workout_notes" /\ ~\E w \in workouts : w.id = f.target
    \/ f.cmd = "delete_exercise" /\ ~\E e \in exercises : e.id = f.target

(* C17: delete_set, delete_workout, delete_exercise and update_workout_notes
   called with an id that matches no row report an error to the caller and
   leave the store unchanged. *)
C17_NotFoundReported ==
    [][\A s \in Sessions :
          (pc[s] = "idle" /\ pc'[s] = "returned" /\ MatchedNoRow(flow'[s])) =>
             /\ flow'[s].error # ""
             /\ store' = store]_vars

(* A name with its surrounding blanks removed *)
Trimmed(name) ==
    LET words == {i \in DOMAIN name : name[i] # " "}
    IN  IF words = {} THEN <<>>
        ELSE SubSeq(name, CHOOSE i \in words : \A j \in words : i <= j,
                          CHOOSE i \in words : \A j \in words : j <= i)

NoSharedName(E) == \A a \in E, b \in E : a.name = b.name => a.id = b.id

(* C18: adding an exercise under a name that, trimmed, is the name of an
   existing exercise fails with an error and leaves the exercises table as it
   was; no two exercises ever share a name. *)
C18_DuplicateNameRefused ==
    [][/\ NoSharedName(exercises)
       /\ NoSharedName(exercises')
       /\ \A s \in Sessions :
             (/\ pc[s] = "idle" /\ pc'[s] = "returned"
              /\ flow'[s].cmd = "add_exercise"
              /\ \E e \in exercises : e.name = Trimmed(flow'[s].name)) =>
                /\ exercises' = exercises
                /\ flow'[s].error # ""]_vars

(* " Squat" has been refused by the UNIQUE constraint, Squat existing *)
C18_Witness ==
    /\ pc["s1"] = "returned"
    /\ flow["s1"].cmd = "add_exercise"
    /\ flow["s1"].name = <<" ", "Squat">>
    /\ flow["s1"].error = "UniqueViolation"
    /\ \E e \in exercises : e.name = <<"Squat">>

NoOrphanSets(S, W) == \A x \in S : \E w \in W : w.id = x.workout_id

(* C19: delete_workout(id) leaves no set with workout_id = id and every other
   set in place, and every set's workout_id is the id of a stored workout,
   whatever add_set, delete_set and delete_workout have done. *)
C19_NoOrphanSets ==
    [][/\ NoOrphanSets(sets, workouts)
       /\ NoOrphanSets(sets', workouts')
       /\ \A s \in Sessions :
             (/\ pc[s] = "idle" /\ pc'[s] = "returned"
              /\ flow'[s].cmd = "delete_workout") =>
                /\ ~\E x \in sets' : x.workout_id = flow'[s].target
                /\ ~\E w \in workouts' : w.id = flow'[s].target
                /\ \A x \in sets : x.workout_id # flow'[s].target => x \in sets']_vars

(* delete_workout has removed a workout together with its sets *)
C19_Witness ==
    /\ pc["s1"] = "returned"
    /\ flow["s1"].cmd = "delete_workout"
    /\ flow["s1"].removed > 0
    /\ ~\E x \in sets : x.workout_id = flow["s1"].target

(* C20: get_workouts_by_date_range(start, end) is exactly the workouts dated
   from start to end, both included, that have a set; a workout that never
   got a set or whose sets were all deleted is not in it. *)
C20_RangeOnlyWithSets ==
    pc["s1"] = "idle" =>
       \A a \in Days, b \in Days :
          /\ \A w \in workouts :
                w \in get_workouts_by_date_range(a, b)
                   <=> /\ a <= w.workout_date
                       /\ w.workout_date <= b
                       /\ Cardinality({x \in sets : x.workout_id = w.id}) >= 1
          /\ get_workouts_by_date_range(a, b) \subseteq workouts

(* Of two workouts in the range the one with a set is returned and the one
   whose sets were all deleted is not *)
C20_Witness ==
    /\ pc["s1"] = "idle"
    /\ \E w \in workouts, v \in workouts :
          /\ \E x \in sets : x.workout_id = w.id
          /\ ~\E x \in sets : x.workout_id = v.id
          /\ \E a \in assigned : a[1] = v.id
          /\ get_workouts_by_date_range(1, MaxDay) = {w}

(* The sets of the workouts dated from a to b *)
SetsInRange(a, b) ==
    {x \in sets : \E w \in workouts : /\ w.id = x.workout_id
                                       /\ a <= w.workout_date
                                       /\ w.workout_date <= b}

(* The set's exercise is of a running category *)
IsRunningSet(x) ==
    \E e \in exercises : e.id = x.exercise_id /\ e.category \in RUNNING_CATEGORIES

(* C21: get_week_summary(start, end) gives total_volume = the sum of
   reps * weight over the sets of non-running exercises, total_miles = the
   sum of reps / 10 over the sets of running exercises, and num_workouts = the
   number of workouts with a set, each over the workouts dated from start to
   end; every set of the range is counted in exactly one of total_volume and
   total_miles, as its exercise's category decides. *)
C21_WeekSummary ==
    pc["s1"] = "idle" =>
       \A a \in Days, b \in Days :
          LET r == get_week_summary(a, b)
              range == SetsInRange(a, b)
          IN  /\ r.total_volume = SumVolume({x \in range : ~IsRunningSet(x)})
              /\ r.total_miles = SumReps({x \in range : IsRunningSet(x)})
              /\ r.num_workouts = Cardinality({x.workout_id : x \in range})
              /\ \A x \in range :
                    /\ (x \in VolumeRows(a, b)) # (x \in MilesRows(a, b))
                    /\ x \in MilesRows(a, b) <=> IsRunningSet(x)

(* C22: the PR log is append-only: no step of log_pr, delete_set,
   delete_workout, delete_exercise or the editing of a set removes or changes
   a row of personal_records; the log after a step is the log before it,
   possibly with rows added at its end. *)
C22_PrLogAppendOnly ==
    [][/\ Len(prs') >= Len(prs)
       /\ SubSeq(prs', 1, Len(prs)) = prs]_vars

(* delete_exercise has been refused for an exercise whose sets are all
   deleted and whose PR rows are still in the log *)
C22_Witness ==
    /\ pc["s1"] = "returned"
    /\ flow["s1"].cmd = "delete_exercise"
    /\ flow["s1"].error = "ForeignKeyViolation"
    /\ ~\E x \in sets : x.exercise_id = flow["s1"].target
    /\ Len(prs) = 2
    /\ \A i \in DOMAIN prs : prs[i].exercise_id = flow["s1"].target

Abs(n) == IF n < 0 THEN -n ELSE n

(* r tenths of a mile is as near to milesC hundredths as any number of tenths *)
NearestTenth(r, milesC) ==
    \A n \in 0 .. (milesC \div 10) + 1 :
       Abs(10 * r - milesC) <= Abs(10 * n - milesC)

(* C23: every running set the Log Workout flow writes stores reps =
   round(miles * 10), the whole number of tenths of a mile nearest to the
   miles entered, and never a negative number, whatever accepted miles are
   entered. *)
C23_RepsIsRoundedMiles ==
    [][\A s \in Sessions :
          (pc[s] = "idle" /\ pc'[s] = "run_added") =>
             \E x \in sets' \ sets :
                /\ x.id = flow'[s].set_id
                /\ x.reps >= 0
                /\ NearestTenth(x.reps, flow'[s].miles)]_vars

(* C24: pace evaluation with zero distance gives a result instead of
   aborting: check_running_pr called with miles = 0, and check_running_pr and
   get_running_stats evaluated over a history holding a running set with
   reps = 0, return and raise no division-by-zero error. *)
C24_ZeroDistanceReturns ==
    [][\A s \in Sessions :
          (/\ pc[s] = "idle" /\ pc'[s] = "returned"
           /\ flow'[s].cmd \in {"check_running_pr", "get_running_stats"}) =>
             flow'[s].error = ""]_vars

(* C25: updateSet(id, reps, weight), as the History page's save button
   invokes it, replaces the reps and the weight of the set with that id and
   leaves that set's set_number, workout_id and exercise_id, every other set
   and the PR log as they were. *)
C25_UpdateSetReplaces ==
    [][\A s \in Sessions :
          (/\ pc[s] = "idle" /\ pc'[s] = "returned"
           /\ flow'[s].cmd = "update_set") =>
             /\ \E x \in sets :
                   /\ x.id = flow'[s].target
                   /\ sets' = (sets \ {x}) \cup
                         {[x EXCEPT !.reps = flow'[s].reps,
                                    !.weight = flow'[s].weight]}
             /\ prs' = prs]_vars

(* C26: get_last_workout_for_exercise(exercise_id, before_date), as the Log
   Workout page calls it with today's date, returns None when the exercise
   has no set in a workout dated before before_date; otherwise 'date' is the
   most recent such workout date and every set of 'sets' is of that date,
   however many sets were logged on it. *)
C26_LastWorkoutOneDate ==
    pc["s1"] = "idle" =>
       \A e \in exercises :
          LET r == get_last_workout_for_exercise(e.id, today)
              before == DatedBefore(e.id, today)
          IN  IF before = {} THEN r = NoLastWorkout
              ELSE /\ r # NoLastWorkout
                   /\ r.date = MaxOf({WorkoutDate(x) : x \in before})
                   /\ \A i \in DOMAIN r.sets : r.sets[i].workout_date = r.date

(* C27: every set added through the Log Workout flow is attached to the
   workout whose date is the calendar date on which the set is logged, the
   date handed to check_if_pr and check_running_pr, however long the session
   has been open and across a change of day. *)
C27_SetOnLoggingDate ==
    [][\A s \in Sessions :
          (pc[s] = "idle" /\ pc'[s] \in {"added", "run_added"}) =>
             \E x \in sets' \ sets :
                /\ x.id = flow'[s].set_id
                /\ flow'[s].today = today
                /\ \E w \in workouts : /\ w.id = x.workout_id
                                        /\ w.workout_date = flow'[s].today]_vars

(* C28: in every reachable state the workout id a session has cached is the
   id of a stored workout, so that add_set of the Log Workout flow never
   fails for a missing workout, also after delete_workout has been applied
   from the History page to the workout the session is using. *)
C28_CachedWorkoutExists ==
    \A s \in Sessions :
       /\ pc[s] \notin {"new", "create"} =>
             \E w \in workouts : w.id = workout_id[s]
       /\ ~(/\ pc[s] = "returned"
            /\ flow[s].cmd = "add_set"
            /\ flow[s].error # "")

(* C29: for each exercise the values of its 'weight' rows in the PR log are
   strictly increasing in the order the rows were appended, under any
   sequence of set logging and set deletion. *)
C29_WeightPrsIncreasing ==
    \A i \in DOMAIN prs, j \in DOMAIN prs :
       (/\ i < j
        /\ prs[i].pr_type = "weight"
        /\ prs[j].pr_type = "weight"
        /\ prs[i].exercise_id = prs[j].exercise_id) =>
          prs[i].value < prs[j].value

NoDanglingExercise(S, P, E) ==
    /\ \A x \in S : \E e \in E : e.id = x.exercise_id
    /\ \A i \in DOMAIN P : \E e \in E : e.id = P[i].exercise_id

(* C30: delete_exercise applied to an exercise that a set or a PR row still
   refers to fails and leaves the store as it was; in every reachable state
   every set and every PR row refers to a stored exercise. *)
C30_NoDanglingExercise ==
    [][/\ NoDanglingExercise(sets, prs, exercises)
       /\ NoDanglingExercise(sets', prs', exercises')
       /\ \A s \in Sessions :
             (/\ pc[s] = "idle" /\ pc'[s] = "returned"
              /\ flow'[s].cmd = "delete_exercise"
              /\ \/ \E x \in sets : x.exercise_id = flow'[s].target
                 \/ \E i \in DOMAIN prs :
                        prs[i].exercise_id = flow'[s].target) =>
                /\ flow'[s].error # ""
                /\ store' = store]_vars

(* delete_exercise has been refused for an exercise that has a set and PR
   rows, and the exercise is still stored *)
C30_Witness ==
    /\ pc["s1"] = "returned"
    /\ flow["s1"].cmd = "delete_exercise"
    /\ flow["s1"].error = "ForeignKeyViolation"
    /\ \E x \in sets : x.exercise_id = flow["s1"].target
    /\ \E i \in DOMAIN prs : prs[i].exercise_id = flow["s1"].target
    /\ \E e \in exercises : e.id = flow["s1"].target

====
